---- MODULE Spec2Model ----
(***************************************************************************)
(* Book recommender: a planner node turns a model reply into a plan, an    *)
(* executor node dispatches one plan step per invocation by keyword        *)
(* matching (fetch / filter / present), and the page shows the result.     *)
(* Text is modelled as sequences of one-character strings so that          *)
(* lowercasing, punctuation stripping and substring tests are computed.    *)
(***************************************************************************)
EXTENDS Integers, Sequences, FiniteSets, TLC

VARIABLES phase, user_query, keys, plan, current_step, done, books,
          filtered_books, top_book, presentation, subject, reply, log, err, ui

vars == <<phase, user_query, keys, plan, current_step, done, books,
          filtered_books, top_book, presentation, subject, reply, log, err, ui>>

(* ------------------------------ text ---------------------------------- *)

UpperLetters ==
  <<"A","B","C","D","E","F","G","H","I","J","K","L","M",
    "N","O","P","Q","R","S","T","U","V","W","X","Y","Z">>

LowerLetters ==
  <<"a","b","c","d","e","f","g","h","i","j","k","l","m",
    "n","o","p","q","r","s","t","u","v","w","x","y","z">>

Digits == {"0","1","2","3","4","5","6","7","8","9"}

Range(s) == {s[i] : i \in DOMAIN s}

UpperSet == {UpperLetters[i] : i \in DOMAIN UpperLetters}

\* str.lower() on one character
LowerChar(c) ==
  IF c \in UpperSet
  THEN LowerLetters[CHOOSE i \in DOMAIN UpperLetters : UpperLetters[i] = c]
  ELSE c

\* str.lower()
Lower(s) == [i \in DOMAIN s |-> LowerChar(s[i])]

\* the regex class \w
WordChars == Range(LowerLetters) \cup Range(UpperLetters) \cup Digits \cup {"_"}

IsWordChar(c) == c \in WordChars

\* the regex class \s
SpaceChars == {" ", "\t", "\n"}

IsSpaceChar(c) == c \in SpaceChars

\* re.sub(r'[^\w\s]', '', s)
StripPunct(s) == SelectSeq(s, LAMBDA c : IsWordChar(c) \/ IsSpaceChar(c))

\* the Python test  phrase in text
Contains(phrase, text) ==
  \E i \in 0 .. (Len(text) - Len(phrase)) :
     \A j \in 1 .. Len(phrase) : text[i + j] = phrase[j]

(* -------------------------- genre extractor --------------------------- *)

subject_keywords ==
  <<
     [subject |-> "science fiction",
      keywords |-> << <<"s","c","i","e","n","c","e"," ","f","i","c","t","i","o","n">>,
                      <<"s","c","i","-","f","i">>,
                      <<"s","c","i"," ","f","i">> >>],
     [subject |-> "fantasy",
      keywords |-> << <<"f","a","n","t","a","s","y">> >>],
     [subject |-> "thriller",
      keywords |-> << <<"t","h","r","i","l","l","e","r">>,
                      <<"s","u","s","p","e","n","s","e">> >>],
     [subject |-> "romance",
      keywords |-> << <<"r","o","m","a","n","c","e">>,
                      <<"l","o","v","e"," ","s","t","o","r","y">>,
                      <<"r","o","m","a","n","t","i","c">> >>],
     [subject |-> "mystery",
      keywords |-> << <<"m","y","s","t","e","r","y">>,
                      <<"d","e","t","e","c","t","i","v","e">>,
                      <<"w","h","o","d","u","n","i","t">> >>],
     [subject |-> "non-fiction",
      keywords |-> << <<"n","o","n","-","f","i","c","t","i","o","n">>,
                      <<"n","o","n","f","i","c","t","i","o","n">>,
                      <<"r","e","a","l"," ","s","t","o","r","y">> >>],
     [subject |-> "history",
      keywords |-> << <<"h","i","s","t","o","r","y">>,
                      <<"h","i","s","t","o","r","i","c","a","l">> >>],
     [subject |-> "horror",
      keywords |-> << <<"h","o","r","r","o","r">>,
                      <<"s","c","a","r","y">>,
                      <<"g","h","o","s","t">> >>],
     [subject |-> "biography",
      keywords |-> << <<"b","i","o","g","r","a","p","h","y">>,
                      <<"l","i","f","e"," ","o","f">>,
                      <<"m","e","m","o","i","r">> >>],
     [subject |-> "self-help",
      keywords |-> << <<"s","e","l","f","-","h","e","l","p">>,
                      <<"m","o","t","i","v","a","t","i","o","n">>,
                      <<"i","n","s","p","i","r","a","t","i","o","n","a","l">> >>],
     [subject |-> "young adult",
      keywords |-> << <<"y","o","u","n","g"," ","a","d","u","l","t">>,
                      <<"y","a">> >>],
     [subject |-> "poetry",
      keywords |-> << <<"p","o","e","t","r","y">>,
                      <<"p","o","e","m","s">> >>],
     [subject |-> "philosophy",
      keywords |-> << <<"p","h","i","l","o","s","o","p","h","y">>,
                      <<"t","h","i","n","k","i","n","g">>,
                      <<"e","t","h","i","c","s">> >>],
     [subject |-> "comedy",
      keywords |-> << <<"c","o","m","e","d","y">>,
                      <<"f","u","n","n","y">>,
                      <<"h","u","m","o","r">> >>],
     [subject |-> "drama",
      keywords |-> << <<"d","r","a","m","a">> >>],
     [subject |-> "historical fiction",
      keywords |-> << <<"h","i","s","t","o","r","i","c","a","l"," ","f","i","c","t","i","o","n">>,
                      <<"p","e","r","i","o","d"," ","d","r","a","m","a">> >>]
  >>

DefaultSubject == "fiction"

\* query_clean = re.sub(r'[^\w\s]', '', query.lower())
query_clean(query) == StripPunct(Lower(query))

EntryMatches(entry, text) ==
  \E k \in DOMAIN entry.keywords : Contains(entry.keywords[k], text)

\* the subject of the first table entry with a phrase in the cleaned query
extract_subject_from_query(query) ==
  LET text == query_clean(query)
      hits == {e \in DOMAIN subject_keywords : EntryMatches(subject_keywords[e], text)}
  IN  IF hits = {} THEN DefaultSubject
      ELSE subject_keywords[CHOOSE e \in hits : \A f \in hits : e <= f].subject

(* ------------------------------ catalog ------------------------------- *)

\* dict.get(key, default) on an optional field, held as a sequence of 0 or 1 value
Get(field, default) == IF field = <<>> THEN default ELSE field[1]

\* one book dictionary built from a response item
BookOf(item) ==
  [title         |-> Get(item.title, "N/A"),
   authors       |-> Get(item.authors, "N/A"),
   averageRating |-> Get(item.averageRating, 0)]

\* fetch_books: the list built from the "items" array of a response
fetch_books(items) == [i \in DOMAIN items |-> BookOf(items[i])]

(* ---------------------------- plan generator -------------------------- *)

T_Query == <<"Q","u","e","r","y"," ","a"," ","b","o","o","k"," ","A","P","I">>

T_Filter == <<"F","i","l","t","e","r"," ","b","y"," ","r","a","t","i","n","g","s">>

T_Present == <<"P","r","e","s","e","n","t"," ","t","h","e"," ","b","o","o","k">>

T_Buy == <<"B","u","y"," ","t","h","e"," ","b","o","o","k">>

T_Recommend == <<"R","e","c","o","m","m","e","n","d"," ","T","o","p"," ","R","a","t","e","d">>

NoTask == <<>>

\* the value of one literal of a reply, as far as the dispatcher reads it
DictWithTask(text) == [type |-> "dict", hasTask |-> TRUE, taskIsText |-> TRUE, task |-> text]

DictNoTask == [type |-> "dict", hasTask |-> FALSE, taskIsText |-> FALSE, task |-> NoTask]

DictTaskInt == [type |-> "dict", hasTask |-> TRUE, taskIsText |-> FALSE, task |-> NoTask]

ListValue == [type |-> "list", hasTask |-> FALSE, taskIsText |-> FALSE, task |-> NoTask]

\* the literals a reply is made of: source text and value
Literals ==
  << [src |-> "{'task': 'Query a book API'}",    val |-> DictWithTask(T_Query)],
     [src |-> "{'task': 'Filter by ratings'}",   val |-> DictWithTask(T_Filter)],
     [src |-> "{'task': 'Present the book'}",    val |-> DictWithTask(T_Present)],
     [src |-> "{'task': 'Buy the book'}",        val |-> DictWithTask(T_Buy)],
     [src |-> "{'task': 'Recommend Top Rated'}", val |-> DictWithTask(T_Recommend)],
     [src |-> "{'step': 1}",                     val |-> DictNoTask],
     [src |-> "{'task': 7}",                     val |-> DictTaskInt] >>

LiteralSrc == {Literals[i].src : i \in DOMAIN Literals}

LiteralVal(tok) == Literals[CHOOSE i \in DOMAIN Literals : Literals[i].src = tok].val

Prose == "Here is the plan:"

\* the SyntaxError or ValueError that ast.literal_eval raises on text that is
\* not a literal; the two are not told apart
LiteralEvalError == "SyntaxError or ValueError"

Failed == [ok |-> FALSE, type |-> "none", val |-> ListValue, items |-> <<>>, next |-> 0]

RECURSIVE ParseValue(_, _), ParseItems(_, _, _)

\* one value starting at token i: a literal or a bracketed list
ParseValue(toks, i) ==
  IF i > Len(toks) THEN Failed
  ELSE IF toks[i] \in LiteralSrc
       THEN [ok |-> TRUE, type |-> LiteralVal(toks[i]).type, val |-> LiteralVal(toks[i]),
             items |-> <<>>, next |-> i + 1]
  ELSE IF toks[i] = "[" THEN ParseItems(toks, i + 1, <<>>)
  ELSE Failed

\* the elements of a list whose "[" has been read, up to its "]"
ParseItems(toks, i, acc) ==
  IF i > Len(toks) THEN Failed
  ELSE IF toks[i] = "]"
       THEN [ok |-> TRUE, type |-> "list", val |-> ListValue, items |-> acc, next |-> i + 1]
  ELSE LET v == ParseValue(toks, i)
       IN  IF ~v.ok \/ v.next > Len(toks) THEN Failed
           ELSE IF toks[v.next] = ","
                THEN ParseItems(toks, v.next + 1, Append(acc, v.val))
           ELSE IF toks[v.next] = "]"
                THEN [ok |-> TRUE, type |-> "list", val |-> ListValue,
                      items |-> Append(acc, v.val), next |-> v.next + 1]
           ELSE Failed

RECURSIVE ParseTupleRest(_, _)

\* the rest of an unparenthesised tuple after a top-level comma
ParseTupleRest(toks, i) ==
  IF i > Len(toks) THEN TRUE
  ELSE LET v == ParseValue(toks, i)
       IN  /\ v.ok
           /\ \/ v.next > Len(toks)
              \/ /\ toks[v.next] = ","
                 /\ ParseTupleRest(toks, v.next + 1)

\* ast.literal_eval: the whole text must be one value or a tuple of values
literal_eval(toks) ==
  LET v == ParseValue(toks, 1)
  IN  IF ~v.ok THEN Failed
      ELSE IF v.next > Len(toks) THEN v
      ELSE IF toks[v.next] = "," /\ ParseTupleRest(toks, v.next + 1)
           THEN [ok |-> TRUE, type |-> "tuple", val |-> ListValue, items |-> <<>>, next |-> Len(toks) + 1]
      ELSE Failed

Positions(toks, tok) == {i \in DOMAIN toks : toks[i] = tok}

Min(S) == CHOOSE i \in S : \A j \in S : i <= j

Max(S) == CHOOSE i \in S : \A j \in S : i >= j

\* re.search(r'\[.*\]', plan_str, re.DOTALL): first "[" to the last "]" after it
HasMatch(toks) ==
  /\ Positions(toks, "[") # {}
  /\ Positions(toks, "]") # {}
  /\ Min(Positions(toks, "[")) < Max(Positions(toks, "]"))

MatchGroup(toks) == SubSeq(toks, Min(Positions(toks, "[")), Max(Positions(toks, "]")))

\* plan_agent swallowing the failure and returning an empty plan
plan_agent_lenient(content) ==
  LET plan_str == IF HasMatch(content) THEN MatchGroup(content) ELSE content
      v == literal_eval(plan_str)
  IN  IF ~v.ok \/ v.type # "list" THEN [raised |-> FALSE, exc |-> "", plan |-> <<>>]
      ELSE [raised |-> FALSE, exc |-> "", plan |-> v.items]

\* plan_agent on the reply of the model: the plan, or the exception it raises
plan_agent(content) ==
  LET plan_str == IF HasMatch(content) THEN MatchGroup(content) ELSE content
      v == literal_eval(plan_str)
  IN  IF ~v.ok THEN [raised |-> TRUE, exc |-> LiteralEvalError, plan |-> <<>>]
      ELSE IF v.type # "list" THEN [raised |-> TRUE, exc |-> "AssertionError", plan |-> <<>>]
      ELSE [raised |-> FALSE, exc |-> "", plan |-> v.items]

(* ---------------------------- step dispatcher ------------------------- *)

FetchKeywords ==
  { <<"q","u","e","r","y">>,
    <<"s","e","a","r","c","h">>,
    <<"f","i","n","d"," ","b","o","o","k","s">> }

FilterKeywords ==
  { <<"f","i","l","t","e","r">>,
    <<"r","a","t","i","n","g">>,
    <<"t","o","p"," ","r","a","t","e","d">> }

PresentKeywords ==
  { <<"p","r","e","s","e","n","t">>,
    <<"s","u","g","g","e","s","t">>,
    <<"r","e","c","o","m","m","e","n","d">> }

MatchesAny(keywords, task) == \E k \in keywords : Contains(k, task)

\* the chain with the PRESENT test ahead of the FILTER test
BranchPresentFirst(task) ==
  IF MatchesAny(FetchKeywords, task) THEN "FETCH"
  ELSE IF MatchesAny(PresentKeywords, task) THEN "PRESENT"
  ELSE IF MatchesAny(FilterKeywords, task) THEN "FILTER"
  ELSE "NOOP"

\* the if / elif chain over the lowercased task text
Branch(task) ==
  IF MatchesAny(FetchKeywords, task) THEN "FETCH"
  ELSE IF MatchesAny(FilterKeywords, task) THEN "FILTER"
  ELSE IF MatchesAny(PresentKeywords, task) THEN "PRESENT"
  ELSE "NOOP"

\* what  task_dict["task"].lower()  raises, "" when it raises nothing
TaskError(task_dict) ==
  IF task_dict.type # "dict" THEN "TypeError"
  ELSE IF ~task_dict.hasTask THEN "KeyError"
  ELSE IF ~task_dict.taskIsText THEN "AttributeError"
  ELSE ""

\* state.get(key, []) for a list-valued key
StateGet(state_keys, key, value) == IF key \in state_keys THEN value ELSE <<>>

\* InsertDesc placing a book before the books of equal rating
InsertDescBeforeTies(placed, b) ==
  LET after == {i \in DOMAIN placed : placed[i].averageRating > b.averageRating}
      k == IF after = {} THEN 0 ELSE Max(after)
  IN  SubSeq(placed, 1, k) \o <<b>> \o SubSeq(placed, k + 1, Len(placed))

\* position of b among the books already placed: after every book rated at least as high
InsertDesc(placed, b) ==
  LET after == {i \in DOMAIN placed : placed[i].averageRating >= b.averageRating}
      k == IF after = {} THEN 0 ELSE Max(after)
  IN  SubSeq(placed, 1, k) \o <<b>> \o SubSeq(placed, k + 1, Len(placed))

RECURSIVE SortedFrom(_, _)

SortedFrom(placed, rest) ==
  IF rest = <<>> THEN placed
  ELSE SortedFrom(InsertDesc(placed, Head(rest)), Tail(rest))

\* sorted(books, key=lambda b: b.get("averageRating", 0), reverse=True)
sorted_by_rating(bks) == SortedFrom(<<>>, bks)

FetchProjection(bks) ==
  [i \in DOMAIN bks |->
     [title |-> bks[i].title, authors |-> bks[i].authors, averageRating |-> bks[i].averageRating]]

FilterProjection(bks) ==
  [i \in DOMAIN bks |-> [title |-> bks[i].title, authors |-> bks[i].authors]]

TopN == 5

\* the slice without its bound
SliceAll(filtered) == filtered

\* filtered[:5]
Slice(filtered) == SubSeq(filtered, 1, IF Len(filtered) < TopN THEN Len(filtered) ELSE TopN)

\* [b["title"] for b in filtered[:5]] if filtered else []
PresentationOf(filtered) ==
  IF filtered = <<>> THEN <<>>
  ELSE [i \in DOMAIN Slice(filtered) |-> Slice(filtered)[i].title]

EmptyRecord == [f \in {} |-> ""]

\* filtered[0] if filtered else {}
TopBookOf(filtered) == IF filtered = <<>> THEN EmptyRecord ELSE filtered[1]

\* PRESENT reading the fetched books instead of the filtered ones
PresentInputBooks(state) ==
  FilterProjection(StateGet(state.keys, "books", state.books))

\* filtered = state.get("filtered_books", [])
PresentInput(state) == StateGet(state.keys, "filtered_books", state.filtered_books)

Outcome(exc, kind, state) == [exc |-> exc, kind |-> kind, state |-> state]

\* dynamic_tool_agent on one step, the run state and the catalog's response
dynamic_tool_agent(task_dict, state, response) ==
  IF TaskError(task_dict) # "" THEN Outcome(TaskError(task_dict), "RAISE", state)
  ELSE
    LET task == Lower(task_dict.task)
        s1 == [state EXCEPT !.subject = extract_subject_from_query(state.user_query)]
        kind == Branch(task)
    IN  CASE kind = "FETCH" ->
               IF response.failed THEN Outcome("ConnectionError", "RAISE", s1)
               ELSE Outcome("", "FETCH",
                      [s1 EXCEPT !.books = FetchProjection(fetch_books(response.items)),
                                 !.keys = @ \cup {"books"}])
          [] kind = "FILTER" ->
               LET filtered == sorted_by_rating(StateGet(state.keys, "books", state.books))
               IN  Outcome("", "FILTER",
                      [s1 EXCEPT !.filtered_books = FilterProjection(filtered),
                                 !.keys = @ \cup {"filtered_books"}])
          [] kind = "PRESENT" ->
               LET filtered == PresentInput(state)
               IN  Outcome("", "PRESENT",
                      [s1 EXCEPT !.presentation = PresentationOf(filtered),
                                 !.top_book = TopBookOf(filtered),
                                 !.keys = @ \cup {"presentation", "top_book"}])
          [] OTHER -> Outcome("", "NOOP", s1)

(* ------------------------------- inputs ------------------------------- *)

MaxPlanLen == 3

MaxReplyLen == 5

MaxItems == 1

LongLen == 7

SeqsUpTo(S, n) == UNION {[1 .. k -> S] : k \in 0 .. n}

Q_Default == <<"S","u","g","g","e","s","t"," ","t","h","e"," ","b","e","s","t"," ","s","c","i","e","n","c","e"," ","f","i","c","t","i","o","n"," ","b","o","o","k">>

Q_Scary == <<"A"," ","s","c","a","r","y"," ","s","c","i","-","f","i"," ","s","t","o","r","y","!">>

Queries == {Q_Default, Q_Scary}

\* the literals the longer plans are made of
PlanLiterals == LiteralSrc \ {"{'task': 7}"}

RECURSIVE Render(_)

\* the literals of a plan separated by commas
Render(p) ==
  IF p = <<>> THEN <<>>
  ELSE IF Len(p) = 1 THEN p
  ELSE <<Head(p), ",">> \o Render(Tail(p))

\* a reply holding a list of literals between two lines of commentary
RenderedReplies ==
  {<<Prose, "[">> \o Render(p) \o <<"]", Prose>> : p \in SeqsUpTo(PlanLiterals, MaxPlanLen)}

ReplyTokens == {"[", "]", ",", Prose, "{'task': 7}"}

\* every short reply over brackets, commas, commentary and one literal
ShortReplies == SeqsUpTo(ReplyTokens, MaxReplyLen)

Replies == ShortReplies \cup RenderedReplies

Item_A == [title |-> <<"A">>, authors |-> <<"Ann">>, averageRating |-> <<4>>]

Item_B == [title |-> <<"B">>, authors |-> <<"Bob">>, averageRating |-> <<5>>]

Item_C == [title |-> <<"C">>, authors |-> <<>>, averageRating |-> <<4>>]

ApiItems == {Item_A, Item_B, Item_C}

\* a response of three items, two of them with the same rating
TiedCatalog == <<Item_A, Item_B, Item_C>>

LongTitles == <<"A", "B", "C">>

\* a response with more items than are presented, with tied ratings
LongCatalog ==
  [i \in 1 .. LongLen |->
     [title |-> <<LongTitles[(i % 3) + 1]>>, authors |-> <<"Ann">>, averageRating |-> <<3 + (i % 2)>>]]

Catalogs == SeqsUpTo(ApiItems, MaxItems) \cup {TiedCatalog, LongCatalog}

NoResponse == [failed |-> FALSE, items |-> <<>>]

\* what requests.get / response.json() can give: an "items" array or a failure
Responses ==
  {[failed |-> FALSE, items |-> c] : c \in Catalogs} \cup {[failed |-> TRUE, items |-> <<>>]}

(* ------------------------------ the graph ----------------------------- *)

NoUi == [kind |-> "none", titles |-> <<>>]

\* initial_state = {"user_query": user_query}, before app.invoke
Init ==
  /\ phase = "planner"
  /\ user_query \in Queries
  /\ keys = {"user_query"}
  /\ plan = <<>>
  /\ current_step = 0
  /\ done = FALSE
  /\ books = <<>>
  /\ filtered_books = <<>>
  /\ top_book = EmptyRecord
  /\ presentation = <<>>
  /\ subject = ""
  /\ reply = <<>>
  /\ log = <<>>
  /\ err = ""
  /\ ui = NoUi

\* plan_node: the planner node
plan_node ==
  /\ phase = "planner"
  /\ \E r \in Replies :
       \E got \in {plan_agent(r)} :
          /\ reply' = r
          /\ IF got.raised
             THEN /\ phase' = "error"
                  /\ err' = got.exc
                  /\ UNCHANGED <<keys, plan, current_step, done>>
             ELSE /\ plan' = got.plan
                  /\ current_step' = 0
                  /\ done' = FALSE
                  /\ keys' = keys \cup {"plan", "current_step", "done"}
                  /\ phase' = "executor"
                  /\ err' = err
  /\ UNCHANGED <<user_query, books, filtered_books, top_book, presentation, subject, log, ui>>

next_step(step) == step + 1

\* is_done with the comparison off by one
is_done_strict(step, p) == step > Len(p)

is_done(step, p) == step >= Len(p)

\* the conditional edge: END if s.get("done") else "executor"
route(d) == IF d THEN "END" ELSE "executor"

RunState ==
  [keys |-> keys, user_query |-> user_query, books |-> books, filtered_books |-> filtered_books,
   top_book |-> top_book, presentation |-> presentation, subject |-> subject]

\* tool_node: the executor node, followed by its conditional edge
tool_node ==
  /\ phase = "executor"
  /\ IF current_step >= Len(plan)
     THEN /\ done' = TRUE
          /\ keys' = keys \cup {"done"}
          /\ phase' = route(TRUE)
          /\ UNCHANGED <<current_step, books, filtered_books, top_book, presentation,
                         subject, log, err>>
     ELSE LET task == plan[current_step + 1]
              fetches == TaskError(task) = "" /\ Branch(Lower(task.task)) = "FETCH"
          IN  \E response \in (IF fetches THEN Responses ELSE {NoResponse}) :
                \E out \in {dynamic_tool_agent(task, RunState, response)} :
                    /\ log' = Append(log, out.kind)
                    /\ subject' = out.state.subject
                    /\ IF out.exc # ""
                       THEN /\ phase' = "error"
                            /\ err' = out.exc
                            /\ UNCHANGED <<keys, current_step, done, books, filtered_books,
                                           top_book, presentation>>
                       ELSE /\ books' = out.state.books
                            /\ filtered_books' = out.state.filtered_books
                            /\ top_book' = out.state.top_book
                            /\ presentation' = out.state.presentation
                            /\ current_step' = next_step(current_step)
                            /\ done' = is_done(next_step(current_step), plan)
                            /\ keys' = out.state.keys \cup {"current_step", "done"}
                            /\ phase' = route(is_done(next_step(current_step), plan))
                            /\ err' = err
  /\ UNCHANGED <<user_query, plan, reply, ui>>

\* the page after app.invoke returned final_state
show_result ==
  /\ phase = "END"
  /\ ui' = IF "presentation" \in keys
           THEN [kind |-> "presentation", titles |-> presentation]
           ELSE [kind |-> "warning", titles |-> <<>>]
  /\ phase' = "shown"
  /\ UNCHANGED <<user_query, keys, plan, current_step, done, books, filtered_books,
                 top_book, presentation, subject, reply, log, err>>

\* the page after app.invoke raised: the except clause around the run
show_error ==
  /\ phase = "error"
  /\ ui' = [kind |-> "error", titles |-> <<>>]
  /\ phase' = "shown"
  /\ UNCHANGED <<user_query, keys, plan, current_step, done, books, filtered_books,
                 top_book, presentation, subject, reply, log, err>>

Next == plan_node \/ tool_node \/ show_result \/ show_error

Spec == Init /\ [][Next]_vars

(* ------------------- the genre extractor on its own -------------------- *)

MaxWords == 2

W_A == <<"a">>

W_Book == <<"b","o","o","k">>

W_SciFi == <<"S","c","i","-","F","i">>

W_SelfHelp == <<"s","e","l","f","-","h","e","l","p","!">>

W_Royal == <<"r","o","y","a","l">>

W_Scary == <<"s","c","a","r","y">>

W_HistFic == <<"H","i","s","t","o","r","i","c","a","l"," ","F","i","c","t","i","o","n">>

Q_Ghost == <<"I"," ","w","a","n","t"," ","a"," ","s","c","a","r","y"," ","g","h","o","s","t"," ","s","t","o","r","y">>

GenreWords == {W_A, W_Book, W_SciFi, W_SelfHelp, W_Royal, W_Scary, W_HistFic}

RECURSIVE JoinWords(_)

\* the words separated by single spaces
JoinWords(ws) ==
  IF Len(ws) = 1 THEN ws[1]
  ELSE ws[1] \o <<" ">> \o JoinWords(Tail(ws))

ListedPhrases ==
  UNION {Range(subject_keywords[e].keywords) : e \in DOMAIN subject_keywords}

\* every listed phrase typed alone, and short texts made of a few words
GenreQueries ==
  ListedPhrases \cup {Q_Ghost, Q_Default}
    \cup {JoinWords(ws) : ws \in (SeqsUpTo(GenreWords, MaxWords) \ {<<>>})}

InitGenre ==
  /\ phase = "call"
  /\ user_query \in GenreQueries
  /\ keys = {"user_query"}
  /\ plan = <<>>
  /\ current_step = 0
  /\ done = FALSE
  /\ books = <<>>
  /\ filtered_books = <<>>
  /\ top_book = EmptyRecord
  /\ presentation = <<>>
  /\ subject = ""
  /\ reply = <<>>
  /\ log = <<>>
  /\ err = ""
  /\ ui = NoUi

\* one call of extract_subject_from_query on the request text
extract_call ==
  /\ phase = "call"
  /\ subject' = extract_subject_from_query(user_query)
  /\ phase' = "returned"
  /\ UNCHANGED <<user_query, keys, plan, current_step, done, books, filtered_books,
                 top_book, presentation, reply, log, err, ui>>

NextGenre == extract_call

SpecGenre == InitGenre /\ [][NextGenre]_vars

(* ------------------------------ properties ---------------------------- *)

Last(s) == s[Len(s)]

\* C6: for every input containing a listed phrase the extractor returns the
\* label of that phrase (the first listed entry when several are contained),
\* hyphenated phrases included; for an input with no listed phrase, "fiction".
C6_GenreOfListedPhrase ==
  phase = "returned" =>
    LET typed == Lower(user_query)
        listed == {e \in DOMAIN subject_keywords :
                     \E k \in DOMAIN subject_keywords[e].keywords :
                        Contains(subject_keywords[e].keywords[k], typed)}
    IN  IF listed = {} THEN subject = "fiction"
        ELSE subject = subject_keywords[Min(listed)].subject

PlanMade == "plan" \in keys

TextStep(s) == s.type = "dict" /\ s.hasTask /\ s.taskIsText

\* C1: a run started by the planner, with the catalog answering, stops only
\* in DONE, after exactly len(plan) invocations of the dispatcher, and never
\* dispatches more than len(plan) steps.
C1_DoneAfterExactlyLenPlan ==
  /\ PlanMade => Len(log) <= Len(plan)
  /\ (PlanMade /\ phase \in {"END", "error", "shown"} /\ err # "ConnectionError") =>
        /\ err = ""
        /\ done
        /\ Len(log) = Len(plan)

\* C2 as stated: the step index never decreases, stays within 0 .. len(plan),
\* and done = (current_step >= len(plan)) in every state from the planner's
\* output onward, the planner's output for an empty plan included.
C2_Original ==
  /\ [](PlanMade => /\ current_step \in 0 .. Len(plan)
                    /\ done = (current_step >= Len(plan)))
  /\ [][current_step' >= current_step]_vars

\* C2 amended: the step index never decreases and stays within 0 .. len(plan);
\* done = (current_step >= len(plan)) in every state the executor returned,
\* while the planner's output always has done false, so that for an empty plan
\* done is false with the index at len(plan) until the executor's first return.
C2_DoneFlagAfterExecutor ==
  /\ [](PlanMade => /\ current_step \in 0 .. Len(plan)
                    /\ IF phase = "executor" /\ log = <<>>
                       THEN ~done /\ current_step = 0
                       ELSE done = (current_step >= Len(plan)))
  /\ [][current_step' >= current_step]_vars

C2_Witness == PlanMade /\ plan = <<>> /\ phase = "END" /\ done /\ current_step = 0

\* C3: no run ends in an error raised because of the shape of a plan step.
C3_PlanNeverRaises == err \notin {"KeyError", "AttributeError", "TypeError"}

C9_FetchWords ==
  { <<"q","u","e","r","y">>,
    <<"s","e","a","r","c","h">>,
    <<"f","i","n","d"," ","b","o","o","k","s">> }

C9_FilterWords ==
  { <<"f","i","l","t","e","r">>,
    <<"r","a","t","i","n","g">>,
    <<"t","o","p"," ","r","a","t","e","d">> }

C9_PresentWords ==
  { <<"p","r","e","s","e","n","t">>,
    <<"s","u","g","g","e","s","t">>,
    <<"r","e","c","o","m","m","e","n","d">> }

Carries(words, s) == \E w \in words : Contains(w, Lower(s.task))

\* the place a book of bks at index i takes when bks is sorted by rating,
\* highest first, books of equal rating in their order in bks
Rank(bks, i) ==
  1 + Cardinality({j \in DOMAIN bks : bks[j].averageRating > bks[i].averageRating})
    + Cardinality({j \in DOMAIN bks : j < i /\ bks[j].averageRating = bks[i].averageRating})

\* out holds exactly the books of bks, as title and authors, each at its rank
StableByRating(bks, out) ==
  /\ Len(out) = Len(bks)
  /\ \A i \in DOMAIN bks :
        out[Rank(bks, i)] = [title |-> bks[i].title, authors |-> bks[i].authors]

\* C4: a plan of a fetch step, a filter step and a present step runs FETCH,
\* FILTER, PRESENT; the page shows a non-empty list of titles in rating order
\* when the catalog returned an item, and the warning when it returned none.
C4_ThreeStepPlanOutcome ==
  ( /\ phase = "shown"
    /\ err = ""
    /\ Len(plan) = 3
    /\ \A i \in 1 .. 3 : TextStep(plan[i])
    /\ Carries(C9_FetchWords, plan[1])
    /\ ~Carries(C9_FetchWords, plan[2]) /\ Carries(C9_FilterWords, plan[2])
    /\ ~Carries(C9_FetchWords, plan[3]) /\ ~Carries(C9_FilterWords, plan[3])
    /\ Carries(C9_PresentWords, plan[3]) )
  => /\ log = <<"FETCH", "FILTER", "PRESENT">>
     /\ IF books # <<>>
        THEN /\ ui.kind = "presentation"
             /\ ui.titles # <<>>
             /\ \E sorted \in {filtered_books} :
                   /\ StableByRating(books, sorted)
                   /\ \A i \in DOMAIN ui.titles : ui.titles[i] = sorted[i].title
        ELSE ui.kind = "warning"

HasBracketedList(r) == \E i, j \in DOMAIN r : i < j /\ r[i] = "[" /\ r[j] = "]"

\* the text between the first "[" and the last "]" of r
Bracketed(r) ==
  SubSeq(r, Min({i \in DOMAIN r : r[i] = "["}), Max({j \in DOMAIN r : r[j] = "]"}))

\* C5: a reply with no bracketed list, or whose bracketed text is not a list,
\* makes the planner fail with an error that reaches the caller: no plan, not
\* even an empty one, enters the run state.
C5_BadReplyRaises ==
  ( /\ phase # "planner"
    /\ \/ ~HasBracketedList(reply)
       \/ ~literal_eval(Bracketed(reply)).ok
       \/ literal_eval(Bracketed(reply)).type # "list" )
  => /\ ~PlanMade
     /\ plan = <<>>
     /\ log = <<>>
     /\ err \in {LiteralEvalError, "AssertionError"}
     /\ phase \in {"error", "shown"}
     /\ phase = "shown" => ui.kind = "error"

C5_Witness ==
  /\ phase = "shown"
  /\ ~HasBracketedList(reply)
  /\ reply # <<>>
  /\ err = "AssertionError"

\* C7: a FILTER step stores in filtered_books the books, as title and authors,
\* sorted by rating, highest first, books of equal rating in their order in books.
C7_FilterStableSort ==
  (log # <<>> /\ Last(log) = "FILTER") =>
     /\ "filtered_books" \in keys
     /\ StableByRating(IF "books" \in keys THEN books ELSE <<>>, filtered_books)

C7_Witness ==
  /\ log # <<>> /\ Last(log) = "FILTER"
  /\ Len(books) >= 3
  /\ \E i, j \in DOMAIN books :
        /\ i < j
        /\ books[i].averageRating = books[j].averageRating
        /\ books[i].title # books[j].title
  /\ \E i, j \in DOMAIN books : i < j /\ books[i].averageRating < books[j].averageRating

Results == <<books, filtered_books, presentation, top_book>>

\* C9: a step with a text task gets the behaviour of the first keyword group
\* its lowercased task matches, FETCH before FILTER before PRESENT, and only
\* that one; a task matching no group changes no result, plan or request.
C9_FirstMatchingGroup ==
  [][ (phase = "executor" /\ current_step < Len(plan) /\ TextStep(plan[current_step + 1])) =>
        LET s == plan[current_step + 1]
            grown == keys' \ (keys \cup {"current_step", "done"})
        IN  /\ plan' = plan /\ user_query' = user_query
            /\ IF Carries(C9_FetchWords, s)
               THEN /\ UNCHANGED <<filtered_books, presentation, top_book>>
                    /\ grown \subseteq {"books"}
                    /\ phase' = "error" \/ "books" \in keys'
               ELSE IF Carries(C9_FilterWords, s)
               THEN /\ UNCHANGED <<books, presentation, top_book>>
                    /\ grown \subseteq {"filtered_books"}
                    /\ "filtered_books" \in keys'
                    /\ phase' # "error"
               ELSE IF Carries(C9_PresentWords, s)
               THEN /\ UNCHANGED <<books, filtered_books>>
                    /\ grown \subseteq {"presentation", "top_book"}
                    /\ {"presentation", "top_book"} \subseteq keys'
                    /\ phase' # "error"
               ELSE /\ UNCHANGED Results
                    /\ grown = {}
                    /\ phase' # "error" ]_vars

C9_Witness ==
  /\ log = <<"FILTER">>
  /\ current_step = 1
  /\ Carries(C9_PresentWords, plan[1])
  /\ "filtered_books" \in keys
  /\ "presentation" \notin keys

Before(first, second) ==
  \E i, j \in DOMAIN log : i < j /\ log[i] = first /\ log[j] = second

\* C10 as stated: filtered_books is defined only after a FETCH step of the run
\* populated books, presentation only after a FILTER step populated
\* filtered_books.
C10_Original ==
  /\ "filtered_books" \in keys => ("books" \in keys /\ Before("FETCH", "FILTER"))
  /\ "presentation" \in keys => ("filtered_books" \in keys /\ Before("FILTER", "PRESENT"))

\* C10 amended: filtered_books is defined only after a FILTER step and holds a
\* book only if an earlier FETCH step populated books; presentation is defined
\* only after a PRESENT step and holds a title only if an earlier FILTER step
\* populated filtered_books; without the earlier step they are empty.
C10_NonEmptyOnlyAfterProducer ==
  /\ "filtered_books" \in keys <=> (\E i \in DOMAIN log : log[i] = "FILTER")
  /\ "presentation" \in keys <=> (\E i \in DOMAIN log : log[i] = "PRESENT")
  /\ filtered_books # <<>> => ("books" \in keys /\ Before("FETCH", "FILTER"))
  /\ presentation # <<>> => ("filtered_books" \in keys /\ Before("FILTER", "PRESENT"))
  /\ "books" \in keys <=> (\E i \in DOMAIN log : log[i] = "FETCH")

C10_Witness ==
  /\ "filtered_books" \in keys
  /\ "books" \notin keys
  /\ filtered_books = <<>>
  /\ "presentation" \in keys
  /\ presentation = <<>>

====
